---- MODULE Spec2Model ----
(***************************************************************************)
(* A model of the munger package: the Munger pipeline engine               *)
(* (munger/munger.py), its Writers (munger/writer.py) and the accept /     *)
(* normalize behaviour of the Processors bound to its three stages.        *)
(*                                                                         *)
(* A document is an ordered mapping, modelled as a sequence of             *)
(* <<key, value>> pairs; all keys and values are strings.                  *)
(***************************************************************************)
EXTENDS Integers, Sequences, FiniteSets, TLC

VARIABLES
    source_init,      \* Munger._source_data_initialized (None is FALSE)
    source_filename,  \* Munger.source_filename, as a parsed path
    source_pos,       \* rows the csv.DictReader has consumed so far
    source_closed,    \* Munger.source_file.closed
    filterer,         \* Munger.filterer : None or the schema of its Processor
    coercer,          \* Munger.coercer
    validator,        \* Munger.validator
    writers,          \* Munger.writers : Hook -> sequence of Writer objects
    lists,            \* the caller's use_fieldnames objects, by identity
    files,            \* names of the output files that exist on disk
    doc_written,      \* Munger._doc_has_been_written
    pc,               \* "idle", "munge_all" (inside the loop) or "deleted"
    opens,            \* number of set_source_data calls made
    munges,           \* number of direct munge calls made
    ret,              \* what the last call did: exception, result, dispatches
    schemas           \* the caller's schema objects: name -> rules now in it

vars == <<source_init, source_filename, source_pos, source_closed, filterer,
          coercer, validator, writers, lists, files, doc_written, pc, opens,
          munges, ret, schemas>>

----------------------------------------------------------------------------
(* Bounds of the model *)

MaxWriters == 2

MaxMunges == 1

MaxOpens == 1

----------------------------------------------------------------------------
(* Enumerations *)

None == "None"

FILTER == "FILTER"

COERCE == "COERCE"

VALIDATE == "VALIDATE"

SchemaType == <<FILTER, COERCE, VALIDATE>>

FAILED_FILTER == "FAILED_FILTER"

FAILED_COERCION == "FAILED_COERCION"

FAILED_VALIDATION == "FAILED_VALIDATION"

END == "END"

Hook == <<FAILED_FILTER, FAILED_COERCION, FAILED_VALIDATION, END>>

Hooks == {Hook[i] : i \in 1..Len(Hook)}

MungeFailureException == "MungeFailureException"

----------------------------------------------------------------------------
(* Documents: ordered mappings *)

Keys(doc) == [i \in 1..Len(doc) |-> doc[i][1]]

KeySet(doc) == {doc[i][1] : i \in 1..Len(doc)}

HasKey(doc, k) == k \in KeySet(doc)

Get(doc, k) == doc[CHOOSE i \in 1..Len(doc) : doc[i][1] = k][2]

SetKey(doc, k, v) ==
    IF HasKey(doc, k)
    THEN [i \in 1..Len(doc) |-> IF doc[i][1] = k THEN <<k, v>> ELSE doc[i]]
    ELSE Append(doc, <<k, v>>)

Range(s) == {s[i] : i \in 1..Len(s)}

Row(field, other) == << <<"Field", field>>, <<"OtherField", other>> >>

\* The rows of the source file: rows of BASIC_CSV of the tests, with one
\* over-long value (as test_munger_will_include_errors makes one) and one
\* empty value.
BASIC_CSV == << Row("1", "a"), Row("2", "dog"), Row("4", "") >>

\* Documents handed to munge directly.
Docs == Range(BASIC_CSV)

----------------------------------------------------------------------------
(* Schemas and the Processor's accept operations.  The rule engine is the  *)
(* cerberus Validator; the schemas are the ones the tests and the          *)
(* coercions module give.                                                  *)

BASIC_VALIDATION_SCHEMA == "BASIC_VALIDATION_SCHEMA"

filter_schema == "filter_schema"

uds_path_schema == "uds_path_schema"

NoErrors == "{}"

\* The values of the model that begin and end with a backslash
Bookended == {"\\a\\", "\\dog\\"}

\* coercions.to_uds_path: path[0] raises IndexError on the empty string
to_uds_path_raises(path) == path = ""

\* coercions.to_uds_path: a backslash is put at each end that lacks one
to_uds_path(path) == IF path \in Bookended THEN path ELSE "\\" \o path \o "\\"

\* the is_even check of test_munger_can_filter_data
is_even_value(value) == value \in {"0", "2", "4", "6", "8"}

----------------------------------------------------------------------------
(* Field mapping (munger/processor.py) and the rename pass of the          *)
(* Validator's normalization                                               *)

\* The value of a rename or map_to directive: absent, a single name (str),
\* or a sequence of names
Absent == [kind |-> "none", names |-> <<>>]

Name(n) == [kind |-> "str", names |-> <<n>>]

Names(ns) == [kind |-> "seq", names |-> ns]

\* a map_to value that is not iterable: a number
Number == [kind |-> "int", names |-> <<>>]

\* a map_to value that is a list of numbers, [1, 2]; the keys it makes are
\* written 1 and 2
Numbers == [kind |-> "numbers", names |-> <<"1", "2">>]

\* What _handle_field_mappings leaves in a rule set in place of map_to:
\* the rename_handler "map_field"
MapField == [kind |-> "handler", names |-> <<>>]

\* The rule set of one field, with its rename and map_to directives
Rule(field, rename, map_to) == [field |-> field, rename |-> rename, map_to |-> map_to]

\* coercion_schema of test_munger_maps_fields_to_new_keys
coercion_schema == "coercion_schema"

\* the same mapping written with the map_to directive of processor.py
map_to_schema == "map_to_schema"

\* two map_to rules declared in the order OtherField, Field
map_to_reversed_schema == "map_to_reversed_schema"

\* a schema whose second map_to is a number
map_to_number_schema == "map_to_number_schema"

\* a schema whose map_to is a list of numbers
map_to_numbers_schema == "map_to_numbers_schema"

\* The rules of a schema that carry a directive, in the order declared, as
\* the caller wrote them
Rules(schema) ==
    CASE schema = coercion_schema ->
            << Rule("Field", Name("Frog"), Absent),
               Rule("OtherField", Names(<<"OtherField", "Bear">>), Absent) >>
      [] schema = map_to_schema ->
            << Rule("Field", Absent, Name("Frog")),
               Rule("OtherField", Absent, Names(<<"OtherField", "Bear">>)) >>
      [] schema = map_to_reversed_schema ->
            << Rule("OtherField", Absent, Name("Bear")),
               Rule("Field", Absent, Name("Frog")) >>
      [] schema = map_to_number_schema ->
            << Rule("Field", Absent, Name("Frog")),
               Rule("OtherField", Absent, Number) >>
      [] schema = map_to_numbers_schema ->
            << Rule("OtherField", Absent, Numbers) >>
      [] OTHER -> <<>>

\* The schema objects of the caller
SchemaIds ==
    {BASIC_VALIDATION_SCHEMA, filter_schema, uds_path_schema, coercion_schema,
     map_to_schema, map_to_reversed_schema, map_to_number_schema,
     map_to_numbers_schema}

\* Processor._handle_field_mappings, lines 19-41, from rule i on: the rule
\* sets are visited in order; a map_to that is neither a str nor an Iterable
\* raises ValueError, any other map_to is recorded, deleted from the
\* caller's rule set and replaced by the rename_handler.  Gives the
\* exception and the rules the schema object holds afterwards.
RECURSIVE handle_field_mappings(_, _)
handle_field_mappings(rules, i) ==
    IF i > Len(rules)
    THEN [raised |-> None, schema |-> rules]
    ELSE IF rules[i].map_to.kind = "int"
    THEN [raised |-> "ValueError", schema |-> rules]
    ELSE IF rules[i].map_to.kind \in {"none", "handler"}
    THEN handle_field_mappings(rules, i + 1)
    ELSE handle_field_mappings([rules EXCEPT ![i].map_to = MapField], i + 1)

\* A Processor is named by the schema it was built from.  A Processor
\* built from a schema object that an earlier construction has changed is
\* another Processor: it found no map_to.
Rebuilt(schema) == schema \o "'"

Base(processor) ==
    IF \E s \in SchemaIds : Rebuilt(s) = processor
    THEN CHOOSE s \in SchemaIds : Rebuilt(s) = processor
    ELSE processor

\* Processor(schema) for the schema object holding these rules
Processor(schema, rules) == IF rules = Rules(schema) THEN schema ELSE Rebuilt(schema)

\* The rules a Processor works with.  For a Processor built from the
\* schema as written, map_to stands for the rename_handler together with
\* the entry of _field_mappings made from it.
ProcessorRules(processor) ==
    IF Base(processor) = processor
    THEN Rules(processor)
    ELSE handle_field_mappings(Rules(Base(processor)), 1).schema

HasRule(schema, field) ==
    \E i \in 1..Len(ProcessorRules(schema)) : ProcessorRules(schema)[i].field = field

RuleOf(schema, field) ==
    ProcessorRules(schema)[CHOOSE i \in 1..Len(ProcessorRules(schema)) :
                              ProcessorRules(schema)[i].field = field]

\* del mapping[k]
DelKey(doc, k) == SelectSeq(doc, LAMBDA e : e[1] # k)

\* The key a tuple of names makes, written as str() writes it:
\* ('OtherField', 'Bear')
RECURSIVE Repr(_, _)
Repr(names, i) ==
    IF i > Len(names) THEN ""
    ELSE "'" \o names[i] \o "'"
         \o (IF i < Len(names) THEN ", " ELSE IF Len(names) = 1 THEN "," ELSE "")
         \o Repr(names, i + 1)

TupleKey(names) == "(" \o Repr(names, 1) \o ")"

\* Processor._handle_field_mappings: self._field_mappings[field], the
\* targets of the field's map_to; a single name becomes a one-element list
field_mappings(rule) == rule.map_to.names

\* The built-in rename rule of the Validator: the value is moved to the key
\* the rule gives, whatever hashable that is; Processor adds nothing to it.
RenameKey(rename) ==
    IF rename.kind = "str" THEN rename.names[1] ELSE TupleKey(rename.names)

normalize_rename(rule, doc) ==
    IF rule.rename.kind = "none"
    THEN doc
    ELSE DelKey(SetKey(doc, RenameKey(rule.rename), Get(doc, rule.field)), rule.field)

\* Processor._normalize_coerce_map_field, lines 52-54: the value is copied
\* to every target after the first
RECURSIVE copy_fields(_, _, _, _)
copy_fields(doc, field, targets, i) ==
    IF i > Len(targets)
    THEN doc
    ELSE copy_fields(SetKey(doc, targets[i], Get(doc, field)), field, targets, i + 1)

\* Mutant: the field is deleted and the main key is never set.
rename_to_main_Dropped(doc, field, main_key) ==
    IF main_key = field
    THEN doc
    ELSE DelKey(doc, field)

\* The rename_handler step of the Validator with the main key that
\* _normalize_coerce_map_field returned: the field is renamed to it unless
\* it is the field's own name
rename_to_main(doc, field, main_key) ==
    IF main_key = field
    THEN doc
    ELSE DelKey(SetKey(doc, main_key, Get(doc, field)), field)

\* The rename_handler "map_field" that _handle_field_mappings puts in place
\* of map_to.  For a field that is not in _field_mappings,
\* _normalize_coerce_map_field returns False, and the field is renamed to
\* that key.
normalize_rename_handler(rule, doc) ==
    IF rule.map_to.kind = "none"
    THEN doc
    ELSE IF rule.map_to.kind = "handler"
    THEN rename_to_main(doc, rule.field, "False")
    ELSE rename_to_main(copy_fields(doc, rule.field, field_mappings(rule), 2),
                        rule.field, field_mappings(rule)[1])

\* The rename pass: the fields the document had when the pass began are
\* visited in the document's order
RECURSIVE normalize_rename_fields(_, _, _, _)
normalize_rename_fields(schema, fields, i, doc) ==
    IF i > Len(fields)
    THEN doc
    ELSE IF HasRule(schema, fields[i])
    THEN normalize_rename_fields(schema, fields, i + 1,
             normalize_rename_handler(RuleOf(schema, fields[i]),
                 normalize_rename(RuleOf(schema, fields[i]), doc)))
    ELSE normalize_rename_fields(schema, fields, i + 1, doc)

\* The coerce rules of the schema, applied to the renamed document.
\* Gives the Processor state (document, errors) after the pass.
normalize_coerce(schema, doc) ==
    CASE schema = uds_path_schema /\ HasKey(doc, "OtherField") ->
            IF to_uds_path_raises(Get(doc, "OtherField"))
            THEN [document |-> doc,
                  errors |-> "{'OtherField': ['cannot be coerced: string index out of range']}"]
            ELSE [document |-> SetKey(doc, "OtherField", to_uds_path(Get(doc, "OtherField"))),
                  errors |-> NoErrors]
      [] OTHER -> [document |-> doc, errors |-> NoErrors]

\* Validator normalization pass: the renames, then the coerce rules.
Normalize(schema, doc) ==
    normalize_coerce(schema, normalize_rename_fields(schema, Keys(doc), 1, doc))

\* Validator validation pass: the maxlength and check_with rules.
Validate(schema, p) ==
    CASE schema = BASIC_VALIDATION_SCHEMA /\ HasKey(p.document, "OtherField")
                /\ Len(Get(p.document, "OtherField")) > 1 ->
            [p EXCEPT !.errors = "{'OtherField': ['max length is 1']}"]
      [] schema = filter_schema /\ HasKey(p.document, "Field")
                /\ ~is_even_value(Get(p.document, "Field")) ->
            [p EXCEPT !.errors = "{'Field': ['Not even number']}"]
      [] OTHER -> p

\* Processor.normalized(data): the Processor state; the call returns None
\* exactly when errors were collected.
normalized(schema, data) == Normalize(schema, data)

\* Processor.validated(data): normalization, then validation.
validated(schema, data) == Validate(schema, Normalize(schema, data))

Rejected(p) == p.errors # NoErrors

----------------------------------------------------------------------------
(* Writer (munger/writer.py) *)

\* The caller's use_fieldnames objects.  A Writer keeps a reference to the
\* object it was given, not a copy.
fieldnames_list == "fieldnames_list"

ListIds == {fieldnames_list}

InitLists == [l \in ListIds |-> <<"OtherField", "Field", "BlankField">>]

\* the condition of test_munger_will_split_writes_according_to_a_condition
is_even == "is_even"

Admits(condition, p) ==
    CASE condition = None -> TRUE
      [] condition = is_even -> is_even_value(Get(p.document, "Field"))

\* Writer.__init__ after _open_file: the file is open and empty, the
\* csv.DictWriter has fieldnames [].
Writer(filename, condition, include_errors, use_fieldnames) ==
    [name |-> filename,
     closed |-> FALSE,
     fields_initialized |-> FALSE,
     wrote_line |-> FALSE,
     condition |-> condition,
     include_errors |-> include_errors,
     fieldnames |-> use_fieldnames,
     header_ref |-> None,
     header |-> <<>>,
     out |-> <<>>,
     finalized |-> FALSE]

\* csv.DictWriter.fieldnames of a Writer: the list object it was assigned
Header(w, ls) == IF w.header_ref # None THEN ls[w.header_ref] ELSE w.header

\* Mutant: the errors are not put into the row.
Output_NoErrors(w, p) == p.document

\* the dict handed to writerow
Output(w, p) ==
    IF w.include_errors
    THEN SetKey(p.document, "ValidationErrors", p.errors)
    ELSE p.document

\* csv.DictWriter._dict_to_list: values in header order, "" for a missing key
DictToList(header, output) ==
    [i \in 1..Len(header) |->
        IF HasKey(output, header[i]) THEN Get(output, header[i]) ELSE ""]

\* Writer.write, lines 47-57: the header is fixed on the first call.
\* headers.append changes the list object itself, which is the caller's
\* list when use_fieldnames was given.
FixHeader(w, ls) ==
    [w EXCEPT !.fields_initialized = TRUE,
              !.out = Append(w.out, Header(w, ls))]

SetFieldnames(w, ls, p) ==
    LET explicit == w.fieldnames # None /\ Len(ls[w.fieldnames]) > 0
        headers0 == IF explicit THEN ls[w.fieldnames] ELSE Keys(p.document)
        headers == IF w.include_errors
                   THEN Append(headers0, "ValidationErrors")
                   ELSE headers0
    IN  [w |-> [w EXCEPT !.header_ref = IF explicit THEN w.fieldnames ELSE None,
                         !.header = IF explicit THEN <<>> ELSE headers],
         lists |-> IF explicit THEN [ls EXCEPT ![w.fieldnames] = headers] ELSE ls]

\* Writer.write, lines 59-73: one row is written when the condition admits
\* the document.  writerow raises ValueError for a key the header lacks, and
\* any write to a closed file raises ValueError.
WriteRow(w, ls, p) ==
    IF ~Admits(w.condition, p)
    THEN [w |-> w, lists |-> ls, result |-> FALSE, raised |-> None]
    ELSE IF ~(KeySet(Output(w, p)) \subseteq Range(Header(w, ls))) \/ w.closed
    THEN [w |-> w, lists |-> ls, result |-> FALSE, raised |-> "ValueError"]
    ELSE [w |-> [w EXCEPT !.out = Append(w.out, DictToList(Header(w, ls), Output(w, p))),
                          !.wrote_line = TRUE],
          lists |-> ls, result |-> TRUE, raised |-> None]

\* The first call of write once the fieldnames f are set: writeheader,
\* then the row
WriteFirst(f, p) ==
    IF f.w.closed
    THEN [w |-> f.w, lists |-> f.lists, result |-> FALSE, raised |-> "ValueError"]
    ELSE WriteRow(FixHeader(f.w, f.lists), f.lists, p)

\* Writer.write(processor): [w, lists, result, raised]
write(w, ls, p) ==
    IF w.fields_initialized
    THEN WriteRow(w, ls, p)
    ELSE WriteFirst(SetFieldnames(w, ls, p), p)

\* Writer.cleanup: closes the file and unlinks it if no line was written.
\* Gives the writer and the files left on disk.
cleanup(w, fs) ==
    [w |-> [w EXCEPT !.closed = TRUE, !.finalized = TRUE],
     files |-> IF w.name \in fs /\ ~w.wrote_line THEN fs \ {w.name} ELSE fs]

----------------------------------------------------------------------------
(* Munger: the per-document engine (munger/munger.py) *)

\* The part of the Munger a munge call reads and changes.
Self ==
    [filterer |-> filterer, coercer |-> coercer, validator |-> validator,
     writers |-> writers, lists |-> lists, doc_written |-> doc_written]

\* The writer loop of _run_hooks from position i on: write is called on a
\* writer only while no writer has written the document.  An exception of
\* write ends the loop and propagates.
RECURSIVE run_writers(_, _, _, _, _)
RECURSIVE Written(_, _, _, _)
\* Mutant: a writer that is passed over because the document is written
\* still has its header fixed by the document.
run_writers_HeadersFixed(ws, i, ls, dw, p) ==
    IF i > Len(ws)
    THEN [ws |-> ws, lists |-> ls, doc_written |-> dw, raised |-> None]
    ELSE IF dw /\ ws[i].fields_initialized
    THEN run_writers(ws, i + 1, ls, dw, p)
    ELSE IF dw
    THEN run_writers([ws EXCEPT ![i] = FixHeader(SetFieldnames(ws[i], ls, p).w,
                                                 SetFieldnames(ws[i], ls, p).lists)],
                     i + 1, SetFieldnames(ws[i], ls, p).lists, dw, p)
    ELSE Written(ws, i, p, write(ws[i], ls, p))

run_writers(ws, i, ls, dw, p) ==
    IF i > Len(ws)
    THEN [ws |-> ws, lists |-> ls, doc_written |-> dw, raised |-> None]
    ELSE IF dw
    THEN run_writers(ws, i + 1, ls, dw, p)
    ELSE Written(ws, i, p, write(ws[i], ls, p))

\* Mutant: the written flag is not kept, so later writers are written too.
Written_Cascade(ws, i, p, r) ==
    IF r.raised # None
    THEN [ws |-> [ws EXCEPT ![i] = r.w], lists |-> r.lists,
          doc_written |-> FALSE, raised |-> r.raised]
    ELSE run_writers([ws EXCEPT ![i] = r.w], i + 1, r.lists, FALSE, p)

\* The loop after writer i returned or raised r
Written(ws, i, p, r) ==
    IF r.raised # None
    THEN [ws |-> [ws EXCEPT ![i] = r.w], lists |-> r.lists,
          doc_written |-> FALSE, raised |-> r.raised]
    ELSE run_writers([ws EXCEPT ![i] = r.w], i + 1, r.lists, r.result, p)

\* The Munger after the writer loop gave r
Hooked(self, event, r) ==
    [self |-> [self EXCEPT !.writers[event] = r.ws,
                           !.lists = r.lists,
                           !.doc_written = r.doc_written],
     raised |-> r.raised]

\* Munger._run_hooks(event, processor).  self.hooks has no registration
\* method and stays empty.  Gives [self, raised].
run_hooks(self, event, p) ==
    Hooked(self, event,
           run_writers(self.writers[event], 1, self.lists, self.doc_written, p))

\* A dispatch of _run_hooks: the hook and the Processor state handed to it
Fired(event, p) == [event |-> event, document |-> p.document, errors |-> p.errors]

\* The state of one munge call between two stages: the Munger, the
\* exception in flight, the document, the Processor last used, and the log
\* of the stages entered and the hooks dispatched.
Step(self, raised, data, last, stages, fired) ==
    [self |-> self, raised |-> raised, data |-> data, last |-> last,
     stages |-> stages, fired |-> fired]

\* Mutant: an exception that no except clause names is raised.
Failed_WrongException(s, stage, event, p, h) ==
    Step(h.self,
         IF h.raised # None THEN h.raised ELSE "RuntimeError",
         s.data, s.last, Append(s.stages, stage),
         Append(s.fired, Fired(event, p)))

\* A stage rejected the document: the Failed hook was dispatched, giving h,
\* and MungeFailureException is raised.
Failed(s, stage, event, p, h) ==
    Step(h.self,
         IF h.raised # None THEN h.raised ELSE MungeFailureException,
         s.data, s.last, Append(s.stages, stage),
         Append(s.fired, Fired(event, p)))

\* Mutant: last_used_processor is assigned by the first stage that ran only.
Stage_FirstKept(s, stage, event, p) ==
    IF Rejected(p)
    THEN Failed(s, stage, event, p, run_hooks(s.self, event, p))
    ELSE Step(s.self, None, p.document,
              IF s.last.stage = None THEN [stage |-> stage, p |-> p] ELSE s.last,
              Append(s.stages, stage), s.fired)

\* A stage whose Processor gave state p: on rejection the Failed hook is
\* dispatched and MungeFailureException raised; otherwise the Processor's
\* document is returned.
Stage(s, stage, event, p) ==
    IF Rejected(p)
    THEN Failed(s, stage, event, p, run_hooks(s.self, event, p))
    ELSE Step(s.self, None, p.document, [stage |-> stage, p |-> p],
              Append(s.stages, stage), s.fired)

\* Mutant: a filtered document is dispatched to the wrong hook.
filter_WrongHook(s) ==
    Stage(s, FILTER, FAILED_VALIDATION, validated(s.self.filterer, s.data))

\* Munger.filter
filter(s) ==
    Stage(s, FILTER, FAILED_FILTER, validated(s.self.filterer, s.data))

\* Munger.coerce
coerce(s) ==
    Stage(s, COERCE, FAILED_COERCION, normalized(s.self.coercer, s.data))

\* Mutant: the document given to the Processor is passed on and handed to
\* the hooks, not the Processor's validated document.
validate_Unnormalized(s) ==
    Stage(s, VALIDATE, FAILED_VALIDATION,
          [validated(s.self.validator, s.data) EXCEPT !.document = s.data])

\* Munger.validate
validate(s) ==
    Stage(s, VALIDATE, FAILED_VALIDATION, validated(s.self.validator, s.data))

NoProcessor == [stage |-> None, p |-> [document |-> <<>>, errors |-> NoErrors]]

\* Lines 182-192 of Munger.munge: a stage runs only if it is bound and no
\* earlier stage raised.
IfFilterer(s) == IF s.self.filterer # None THEN filter(s) ELSE s

IfCoercer(s) == IF s.raised = None /\ s.self.coercer # None THEN coerce(s) ELSE s

IfValidator(s) == IF s.raised = None /\ s.self.validator # None THEN validate(s) ELSE s

\* Mutant: the coercer is run before the filterer.
TryStages_Reordered(self, data) ==
    IfValidator(IfFilterer(IfCoercer(Step(self, None, data, NoProcessor, <<>>, <<>>))))

\* The try block of Munger.munge, lines 181-192
TryStages(self, data) ==
    IfValidator(IfCoercer(IfFilterer(Step(self, None, data, NoProcessor, <<>>, <<>>))))

\* The result of a call: the Munger after it, the exception that escaped,
\* whether it returned None, the document returned, and the log.
Result(self, raised, none, document, stages, fired) ==
    [self |-> self, raised |-> raised, none |-> none, document |-> document,
     stages |-> stages, fired |-> fired]

\* Line 199 of Munger.munge, after _run_hooks(Hook.END, ...) gave h
Completed(s, h) ==
    Result(h.self, h.raised, FALSE, IF h.raised = None THEN s.data ELSE <<>>,
           s.stages, Append(s.fired, Fired(END, s.last.p)))

\* Mutant: the except clause does not return, and END is dispatched too.
Finish_FallThrough(s) ==
    IF s.raised \notin {None, MungeFailureException}
    THEN Result(s.self, s.raised, FALSE, <<>>, s.stages, s.fired)
    ELSE IF s.last.stage = None /\ s.raised = None
    THEN Result(s.self, "UnboundLocalError", FALSE, <<>>, s.stages, s.fired)
    ELSE Completed(s, run_hooks(s.self, END, s.last.p))

\* Lines 194-199 of Munger.munge.  MungeFailureException is caught and None
\* returned; with no stage bound last_used_processor is unbound at line 197.
Finish(s) ==
    IF s.raised = MungeFailureException
    THEN Result(s.self, None, TRUE, <<>>, s.stages, s.fired)
    ELSE IF s.raised # None
    THEN Result(s.self, s.raised, FALSE, <<>>, s.stages, s.fired)
    ELSE IF s.last.stage = None
    THEN Result(s.self, "UnboundLocalError", FALSE, <<>>, s.stages, s.fired)
    ELSE Completed(s, run_hooks(s.self, END, s.last.p))

\* Munger.munge(data)
munge(self, data) == Finish(TryStages([self EXCEPT !.doc_written = FALSE], data))

----------------------------------------------------------------------------
(* The calls a program makes on a Munger *)

\* Path(filename), with the parts register_writer reads
Path(parent, stem, suffix) == [parent |-> parent, stem |-> stem, suffix |-> suffix]

\* str(sf_path.parent / name)
Join(parent, name) == IF parent = "." THEN name ELSE parent \o "/" \o name

NoPath == Path("", "", "")

NoResult == Result(None, None, FALSE, <<>>, <<>>, <<>>)

\* The record of a call: its name, its document argument, what it raised
\* and returned, and the stages and hooks it went through.
Ret(op, input, r) ==
    [op |-> op, input |-> input, raised |-> r.raised, none |-> r.none,
     document |-> r.document, stages |-> r.stages, fired |-> r.fired]

Raise(op, input, exception) ==
    Ret(op, input, [NoResult EXCEPT !.raised = exception])

Return(op, input) == Ret(op, input, NoResult)

Init ==
    /\ source_init = FALSE
    /\ source_filename = NoPath
    /\ source_pos = 0
    /\ source_closed = FALSE
    /\ filterer = None
    /\ coercer = None
    /\ validator = None
    /\ writers = [h \in Hooks |-> <<>>]
    /\ lists = InitLists
    /\ files = {}
    /\ doc_written = FALSE
    /\ pc = "idle"
    /\ opens = 0
    /\ munges = 0
    /\ ret = Return("__init__", <<>>)
    /\ schemas = [s \in SchemaIds |-> Rules(s)]

NumWriters == Len(writers[FAILED_FILTER]) + Len(writers[FAILED_COERCION])
              + Len(writers[FAILED_VALIDATION]) + Len(writers[END])

\* Munger.set_source_data(filename)
SetSourceData(filename) ==
    /\ pc = "idle"
    /\ opens < MaxOpens
    /\ source_filename' = filename
    /\ source_pos' = 0
    /\ source_closed' = FALSE
    /\ source_init' = TRUE
    /\ opens' = opens + 1
    /\ ret' = Return("set_source_data", <<>>)
    /\ UNCHANGED <<schemas, filterer, coercer, validator, writers, lists,
                   files, doc_written, pc, munges>>

\* The stage argument of a set_schema or set_processor call
StageArg(schema_type) == << <<"schema_type", schema_type>> >>

\* Processor(schema, **kwargs) as set_schema calls it: the exception of the
\* construction, the Processor built and the rules left in the caller's
\* schema object
Construct(schema) ==
    [raised |-> handle_field_mappings(schemas[schema], 1).raised,
     processor |-> Processor(schema, schemas[schema]),
     schema |-> handle_field_mappings(schemas[schema], 1).schema]

\* The attribute of a stage after set_schema(schema_type, schema) where the
\* stage is bound by the calls naming one of the given identifiers
Bind(stage, schema_type, identifiers, schema) ==
    IF schema_type \in identifiers /\ Construct(schema).raised = None
    THEN Construct(schema).processor
    ELSE stage

\* Mutant: a stage identifier that is not recognized binds the validator.
SetSchema_Fallback(schema_type, schema) ==
    /\ pc = "idle"
    /\ filterer' = Bind(filterer, schema_type, {FILTER}, schema)
    /\ coercer' = Bind(coercer, schema_type, {COERCE}, schema)
    /\ validator' = IF schema_type \notin {FILTER, COERCE} /\ Construct(schema).raised = None
                    THEN Construct(schema).processor
                    ELSE validator
    /\ schemas' = [schemas EXCEPT ![schema] = Construct(schema).schema]
    /\ ret' = IF Construct(schema).raised = None
              THEN Return("set_schema", StageArg(schema_type))
              ELSE Raise("set_schema", StageArg(schema_type), "ValueError")
    /\ UNCHANGED <<source_init, source_filename, source_pos, source_closed,
                   writers, lists, files, doc_written, pc, opens, munges>>

\* Munger.set_schema(schema_type, schema): the Processor is built in the
\* branch of a known stage identifier; any other identifier raises
\* TypeError before a Processor is built
SetSchema(schema_type, schema) ==
    /\ pc = "idle"
    /\ filterer' = Bind(filterer, schema_type, {FILTER}, schema)
    /\ coercer' = Bind(coercer, schema_type, {COERCE}, schema)
    /\ validator' = Bind(validator, schema_type, {VALIDATE}, schema)
    /\ schemas' = IF schema_type \in Range(SchemaType)
                  THEN [schemas EXCEPT ![schema] = Construct(schema).schema]
                  ELSE schemas
    /\ ret' = IF schema_type \notin Range(SchemaType)
              THEN Raise("set_schema", StageArg(schema_type), "TypeError")
              ELSE IF Construct(schema).raised = None
              THEN Return("set_schema", StageArg(schema_type))
              ELSE Raise("set_schema", StageArg(schema_type), "ValueError")
    /\ UNCHANGED <<source_init, source_filename, source_pos, source_closed,
                   writers, lists, files, doc_written, pc, opens, munges>>

\* Munger.set_processor(schema_type, processor): the Processor the caller
\* built is bound as it is
SetProcessor(schema_type, processor) ==
    /\ pc = "idle"
    /\ filterer' = IF schema_type = FILTER THEN processor ELSE filterer
    /\ coercer' = IF schema_type = COERCE THEN processor ELSE coercer
    /\ validator' = IF schema_type = VALIDATE THEN processor ELSE validator
    /\ ret' = IF schema_type \in Range(SchemaType)
              THEN Return("set_processor", StageArg(schema_type))
              ELSE Raise("set_processor", StageArg(schema_type), "TypeError")
    /\ UNCHANGED <<schemas, source_init, source_filename, source_pos, source_closed,
                   writers, lists, files, doc_written, pc, opens, munges>>

FailureHooks == {FAILED_VALIDATION, FAILED_COERCION, FAILED_FILTER}

\* Mutant: the suffix is put after the extension.
Destination_AfterExtension(filename, suffix) ==
    IF filename = None
    THEN Join(source_filename.parent,
              source_filename.stem \o source_filename.suffix \o "-" \o suffix)
    ELSE filename

\* The destination of a writer, lines 159-162
Destination(filename, suffix) ==
    IF filename = None
    THEN Join(source_filename.parent,
              source_filename.stem \o "-" \o suffix \o source_filename.suffix)
    ELSE filename

\* Mutant: the source is not required.
RegisterWriterCheck_NoSource(filename, suffix) ==
    IF filename = None /\ suffix = None THEN "TypeError"
    ELSE IF filename # None /\ suffix # None THEN "TypeError"
    ELSE None

\* Mutant: a filename and a suffix may be given together.
RegisterWriterCheck_Both(filename, suffix) ==
    IF ~source_init THEN "RuntimeError"
    ELSE IF filename = None /\ suffix = None THEN "TypeError"
    ELSE None

\* The argument checks of register_writer, lines 145-157: the exception
\* raised, or None
RegisterWriterCheck(filename, suffix) ==
    IF ~source_init THEN "RuntimeError"
    ELSE IF filename = None /\ suffix = None THEN "TypeError"
    ELSE IF filename # None /\ suffix # None THEN "TypeError"
    ELSE None

\* Mutant: the file named is opened before the arguments are checked.
RegisterWriter_OpensFirst(event, filename, suffix, condition, include_errors, use_fieldnames) ==
    /\ pc = "idle"
    /\ LET raised == RegisterWriterCheck(filename, suffix)
           args == << <<"event", event>>, <<"filename", filename>>, <<"suffix", suffix>> >>
       IN
       IF raised # None
       THEN /\ ret' = Raise("register_writer", args, raised)
            /\ files' = IF filename # None THEN files \cup {filename} ELSE files
            /\ UNCHANGED writers
       ELSE /\ NumWriters < MaxWriters
            /\ LET dest == Destination(filename, suffix)
                   w == Writer(dest, condition,
                               include_errors /\ event \in FailureHooks,
                               use_fieldnames)
               IN  /\ writers' = [writers EXCEPT ![event] = Append(@, w)]
                   /\ files' = files \cup {dest}
            /\ ret' = Return("register_writer", args)
    /\ UNCHANGED <<schemas, source_init, source_filename, source_pos, source_closed,
                   filterer, coercer, validator, lists, doc_written, pc,
                   opens, munges>>

\* Munger.register_writer(event, filename, suffix, condition,
\*                        include_errors, use_fieldnames)
RegisterWriter(event, filename, suffix, condition, include_errors, use_fieldnames) ==
    /\ pc = "idle"
    /\ LET raised == RegisterWriterCheck(filename, suffix)
           args == << <<"event", event>>, <<"filename", filename>>, <<"suffix", suffix>> >>
       IN
       IF raised # None
       THEN /\ ret' = Raise("register_writer", args, raised)
            /\ UNCHANGED <<writers, files>>
       ELSE /\ NumWriters < MaxWriters
            /\ LET dest == Destination(filename, suffix)
                   w == Writer(dest, condition,
                               include_errors /\ event \in FailureHooks,
                               use_fieldnames)
               IN  /\ writers' = [writers EXCEPT ![event] = Append(@, w)]
                   /\ files' = files \cup {dest}
            /\ ret' = Return("register_writer", args)
    /\ UNCHANGED <<schemas, source_init, source_filename, source_pos, source_closed,
                   filterer, coercer, validator, lists, doc_written, pc,
                   opens, munges>>


\* The attributes a munge call leaves on the Munger
Assign(self) ==
    /\ writers' = self.writers
    /\ lists' = self.lists
    /\ doc_written' = self.doc_written

\* Munger.munge(data), called by the program, gave r
Munged(data, r) ==
    /\ Assign(r.self)
    /\ ret' = Ret("munge", data, r)

\* Munger.munge(data), called by the program
Munge(data) ==
    /\ pc = "idle"
    /\ munges < MaxMunges
    /\ munges' = munges + 1
    /\ Munged(data, munge(Self, data))
    /\ UNCHANGED <<schemas, source_init, source_filename, source_pos, source_closed,
                   filterer, coercer, validator, files, pc, opens>>

\* Mutant: munge_all does not look at the stages.
MungeAllBegin_Unchecked ==
    /\ pc = "idle"
    /\ IF ~source_init
       THEN /\ ret' = Raise("munge_all", <<>>, "AttributeError")
            /\ pc' = pc
       ELSE /\ ret' = Return("munge_all:begin", <<>>)
            /\ pc' = "munge_all"
    /\ UNCHANGED <<schemas, source_init, source_filename, source_pos, source_closed,
                   filterer, coercer, validator, writers, lists, files,
                   doc_written, opens, munges>>

\* Munger.munge_all, lines 202-208, up to the loop: RuntimeError when no
\* stage is bound; self.source_reader does not exist before set_source_data.
MungeAllBegin ==
    /\ pc = "idle"
    /\ IF filterer = None /\ coercer = None /\ validator = None
       THEN /\ ret' = Raise("munge_all", <<>>, "RuntimeError")
            /\ pc' = pc
       ELSE IF ~source_init
       THEN /\ ret' = Raise("munge_all", <<>>, "AttributeError")
            /\ pc' = pc
       ELSE /\ ret' = Return("munge_all:begin", <<>>)
            /\ pc' = "munge_all"
    /\ UNCHANGED <<schemas, source_init, source_filename, source_pos, source_closed,
                   filterer, coercer, validator, writers, lists, files,
                   doc_written, opens, munges>>

\* Lines 211-214 of munge_all, after munge(row) gave r: a
\* MungeFailureException is caught, any other exception ends munge_all.
Continue(r) == r.raised \in {None, MungeFailureException}

RowMunged(data, r) ==
    /\ Assign(r.self)
    /\ ret' = IF Continue(r)
              THEN Ret("munge_all:row", data, [r EXCEPT !.raised = None])
              ELSE Ret("munge_all", data, r)
    /\ pc' = IF Continue(r) THEN "munge_all" ELSE "idle"

\* Mutant: the rows of the source are read from the last to the first.
MungeAllRow_Reversed ==
    /\ pc = "munge_all"
    /\ source_pos < Len(BASIC_CSV)
    /\ IF source_closed
       THEN /\ ret' = Raise("munge_all", <<>>, "ValueError")
            /\ pc' = "idle"
            /\ UNCHANGED <<source_pos, writers, lists, doc_written>>
       ELSE /\ source_pos' = source_pos + 1
            /\ RowMunged(BASIC_CSV[Len(BASIC_CSV) - source_pos],
                         munge(Self, BASIC_CSV[Len(BASIC_CSV) - source_pos]))
    /\ UNCHANGED <<schemas, source_init, source_filename, source_closed, filterer,
                   coercer, validator, files, opens, munges>>

\* One iteration of the loop of munge_all, lines 210-214: the next row is
\* read and munged.  Reading a closed file raises ValueError.
MungeAllRow ==
    /\ pc = "munge_all"
    /\ source_pos < Len(BASIC_CSV)
    /\ IF source_closed
       THEN /\ ret' = Raise("munge_all", <<>>, "ValueError")
            /\ pc' = "idle"
            /\ UNCHANGED <<source_pos, writers, lists, doc_written>>
       ELSE /\ source_pos' = source_pos + 1
            /\ RowMunged(BASIC_CSV[source_pos + 1],
                         munge(Self, BASIC_CSV[source_pos + 1]))
    /\ UNCHANGED <<schemas, source_init, source_filename, source_closed, filterer,
                   coercer, validator, files, opens, munges>>

\* The loop of munge_all ends when the reader is exhausted.
MungeAllEnd ==
    /\ pc = "munge_all"
    /\ source_pos = Len(BASIC_CSV)
    /\ ret' = IF source_closed
              THEN Raise("munge_all", <<>>, "ValueError")
              ELSE Return("munge_all", <<>>)
    /\ pc' = "idle"
    /\ UNCHANGED <<schemas, source_init, source_filename, source_pos, source_closed,
                   filterer, coercer, validator, writers, lists, files,
                   doc_written, opens, munges>>

\* Mutant: the writers' files are left open.
close_all_files_SourceOnly(ws) == ws

\* Munger._close_all_files: every writer's file and the source are closed.
close_all_files(ws) ==
    [h \in Hooks |-> [i \in 1..Len(ws[h]) |-> [ws[h][i] EXCEPT !.closed = TRUE]]]

\* Munger.__exit__
MungerExit ==
    /\ pc = "idle"
    /\ writers' = close_all_files(writers)
    /\ source_closed' = (source_init \/ source_closed)
    /\ ret' = Return("__exit__", <<>>)
    /\ UNCHANGED <<schemas, source_init, source_filename, source_pos, filterer, coercer,
                   validator, lists, files, doc_written, pc, opens, munges>>

\* Munger.__del__: the Munger is gone; its Writers become unreachable.
MungerDel ==
    /\ pc = "idle"
    /\ writers' = close_all_files(writers)
    /\ source_closed' = (source_init \/ source_closed)
    /\ pc' = "deleted"
    /\ ret' = Return("__del__", <<>>)
    /\ UNCHANGED <<schemas, source_init, source_filename, source_pos, filterer, coercer,
                   validator, lists, files, doc_written, opens, munges>>

\* Writer.__del__ of an unreachable Writer, whenever the collector runs it
WriterDel(event, i) ==
    /\ pc = "deleted"
    /\ i \in 1..Len(writers[event])
    /\ ~writers[event][i].finalized
    /\ LET c == cleanup(writers[event][i], files) IN
       /\ writers' = [writers EXCEPT ![event][i] = c.w]
       /\ files' = c.files
    /\ ret' = Return("Writer.__del__", <<>>)
    /\ UNCHANGED <<schemas, source_init, source_filename, source_pos, source_closed,
                   filterer, coercer, validator, lists, doc_written, pc,
                   opens, munges>>

----------------------------------------------------------------------------
(* The specifications *)

fish_csv == Path(".", "fish", ".csv")

indexes_fish_csv == Path("../indexes", "fish", ".csv")

\* (stage, schema) pairs the program binds
StageArgs ==
    {<<FILTER, filter_schema>>, <<COERCE, uds_path_schema>>, <<VALIDATE, BASIC_VALIDATION_SCHEMA>>,
     <<VALIDATE, uds_path_schema>>, <<"validation", BASIC_VALIDATION_SCHEMA>>}

\* (stage, Processor) pairs the program binds with set_processor
ProcessorArgs ==
    {<<FILTER, filter_schema>>, <<"validation", BASIC_VALIDATION_SCHEMA>>}

WriterArg(event, filename, suffix, condition, include_errors, use_fieldnames) ==
    [event |-> event, filename |-> filename, suffix |-> suffix,
     condition |-> condition, include_errors |-> include_errors,
     use_fieldnames |-> use_fieldnames]

\* register_writer calls of the engine specification: unconditional
\* writers, and the calls with both or neither of filename, suffix
EngineWriterArgs ==
    {WriterArg(FAILED_FILTER, "filtered.csv", None, None, FALSE, None),
     WriterArg(FAILED_VALIDATION, None, "invalid", None, FALSE, None),
     WriterArg(END, "output.csv", None, None, FALSE, None),
     WriterArg(END, "bird.csv", "bird", None, FALSE, None),
     WriterArg(END, None, None, None, FALSE, None)}

Register(a) ==
    RegisterWriter(a.event, a.filename, a.suffix, a.condition,
                   a.include_errors, a.use_fieldnames)

\* register_writer calls of the run-one specification: a conditional and
\* an unconditional writer on END, and a writer named by a suffix
RouterWriterArgs ==
    {WriterArg(END, "condition.csv", None, is_even, FALSE, None),
     WriterArg(END, "valid.csv", None, None, FALSE, None),
     WriterArg(FAILED_COERCION, None, "uncoerced", None, FALSE, None)}

Teardown ==
    \/ MungerExit
    \/ MungerDel
    \/ \E h \in Hooks : \E i \in 1..MaxWriters : WriterDel(h, i)

\* A program that configures a Munger, runs munge_all and tears it down
Next ==
    \/ SetSourceData(fish_csv)
    \/ \E a \in StageArgs : SetSchema(a[1], a[2])
    \/ \E a \in ProcessorArgs : SetProcessor(a[1], a[2])
    \/ \E a \in EngineWriterArgs : Register(a)
    \/ MungeAllBegin
    \/ MungeAllRow
    \/ MungeAllEnd
    \/ Teardown

Spec == Init /\ [][Next]_vars

\* A program that configures a Munger and hands it documents one by one
NextOne ==
    \/ SetSourceData(indexes_fish_csv)
    \/ \E a \in StageArgs : SetSchema(a[1], a[2])
    \/ \E a \in ProcessorArgs : SetProcessor(a[1], a[2])
    \/ \E a \in RouterWriterArgs : Register(a)
    \/ \E data \in Docs : Munge(data)
    \/ MungerExit

SpecOne == Init /\ [][NextOne]_vars

\* register_writer calls of the writer specification: writers given the
\* caller's fieldname list, writers asked to include the errors, and a
\* conditional writer
HeaderWriterArgs ==
    {WriterArg(END, "output.csv", None, None, FALSE, fieldnames_list),
     WriterArg(END, "bear.csv", None, is_even, TRUE, fieldnames_list),
     WriterArg(FAILED_FILTER, "filtered.csv", None, None, TRUE, fieldnames_list),
     WriterArg(FAILED_VALIDATION, "invalid.csv", None, None, TRUE, None),
     WriterArg(FAILED_VALIDATION, "errors.csv", None, None, TRUE, fieldnames_list)}

\* (stage, schema) pairs of the writer specification
HeaderStageArgs ==
    {<<FILTER, filter_schema>>, <<VALIDATE, BASIC_VALIDATION_SCHEMA>>}

\* A program that registers such writers and runs munge_all
NextWriter ==
    \/ SetSourceData(fish_csv)
    \/ \E a \in HeaderStageArgs : SetSchema(a[1], a[2])
    \/ \E a \in HeaderWriterArgs : Register(a)
    \/ MungeAllBegin
    \/ MungeAllRow
    \/ MungeAllEnd
    \/ MungerExit

SpecWriter == Init /\ [][NextWriter]_vars

\* (stage, schema) pairs of the field-mapping specification
RenameStageArgs ==
    {<<COERCE, coercion_schema>>, <<COERCE, map_to_schema>>,
     <<COERCE, map_to_reversed_schema>>, <<FILTER, filter_schema>>}

\* register_writer calls of the field-mapping specification
RenameWriterArgs ==
    {WriterArg(END, "munged", None, None, FALSE, None),
     WriterArg(FAILED_FILTER, "filtered.csv", None, None, FALSE, None)}

\* A program that binds a coercer whose schema renames fields and runs
\* munge_all
NextRename ==
    \/ SetSourceData(fish_csv)
    \/ \E a \in RenameStageArgs : SetSchema(a[1], a[2])
    \/ \E a \in RenameWriterArgs : Register(a)
    \/ MungeAllBegin
    \/ MungeAllRow
    \/ MungeAllEnd
    \/ MungerExit

SpecRename == Init /\ [][NextRename]_vars

\* (stage, schema) pairs of the map_to specification: schemas whose map_to
\* is a name, a list of names, a number and a list of numbers
MappingStageArgs ==
    {<<COERCE, map_to_schema>>, <<COERCE, map_to_number_schema>>,
     <<COERCE, map_to_numbers_schema>>}

\* register_writer calls of the map_to specification
MappingWriterArgs == {WriterArg(END, "munged.csv", None, None, FALSE, None)}

\* A program that builds Processors from schemas with map_to rules, from
\* the same schema object more than once, and hands them documents
NextMapping ==
    \/ SetSourceData(indexes_fish_csv)
    \/ \E a \in MappingStageArgs : SetSchema(a[1], a[2])
    \/ \E a \in MappingWriterArgs : Register(a)
    \/ \E data \in Docs : Munge(data)
    \/ MungerExit

SpecMapping == Init /\ [][NextMapping]_vars

----------------------------------------------------------------------------
(* Properties of Munger.munge *)

\* The last call handed a document to Munger.munge
MungedDocument ==
    \/ ret.op \in {"munge", "munge_all:row"}
    \/ ret.op = "munge_all" /\ ret.input # <<>>

Bound(stage) ==
    CASE stage = FILTER -> filterer
      [] stage = COERCE -> coercer
      [] stage = VALIDATE -> validator

BoundStages == SelectSeq(SchemaType, LAMBDA stage : Bound(stage) # None)

FailedHook(stage) ==
    CASE stage = FILTER -> FAILED_FILTER
      [] stage = COERCE -> FAILED_COERCION
      [] stage = VALIDATE -> FAILED_VALIDATION

\* C1: every document passed to munge while at least one stage is bound has
\* _run_hooks dispatched exactly once for it, with one of the four hooks.
C1_ExactlyOneOutcome ==
    (MungedDocument /\ BoundStages # <<>>) =>
        /\ Len(ret.fired) = 1
        /\ ret.fired[1].event \in Hooks

\* A document went through all three stages and was rejected by the last.
C1_Witness ==
    /\ ret.op = "munge"
    /\ ret.stages = SchemaType
    /\ Len(ret.fired) = 1
    /\ ret.fired[1].event = FAILED_VALIDATION

\* What the Processor of a stage answers for a document
Answer(stage, doc) ==
    IF stage = COERCE
    THEN normalized(Bound(stage), doc)
    ELSE validated(Bound(stage), doc)

\* The document after the first n bound stages, each applied to the
\* result of the one before
RECURSIVE After(_, _)
After(n, doc) ==
    IF n = 0 THEN doc ELSE Answer(BoundStages[n], After(n - 1, doc)).document

AcceptedBy(n, doc) == ~Rejected(Answer(BoundStages[n], After(n - 1, doc)))

\* C2: the stages run in the order Filter, Coerce, Validate; a rejection
\* fires the Failed hook of the rejecting stage, returns None and runs no
\* later stage; END is fired only if every bound stage accepted.
C2_StageOrder ==
    (MungedDocument /\ BoundStages # <<>>) =>
        LET n == Len(ret.stages) IN
        /\ n \in 1..Len(BoundStages)
        /\ ret.stages = SubSeq(BoundStages, 1, n)
        /\ \A k \in 1..(n - 1) : AcceptedBy(k, ret.input)
        /\ Len(ret.fired) >= 1
        /\ IF AcceptedBy(n, ret.input)
           THEN /\ n = Len(BoundStages)
                /\ ret.fired[1].event = END
                /\ ret.raised = None => (~ret.none /\ ret.document = After(n, ret.input))
           ELSE /\ ret.fired[1].event = FailedHook(ret.stages[n])
                /\ ret.raised = None => ret.none

\* The filter accepted a document, the coercer rejected it and the bound
\* validator was not run.
C2_Witness ==
    /\ ret.op = "munge"
    /\ validator # None
    /\ ret.stages = <<FILTER, COERCE>>
    /\ ret.fired[1].event = FAILED_COERCION
    /\ ret.none

----------------------------------------------------------------------------
(* Properties of the writer loop of _run_hooks *)

\* The rows a Writer has written, its header line left out
DataRows(w) == IF w.fields_initialized THEN Tail(w.out) ELSE w.out

\* The step is a direct munge call
MungeStep == ret'.op = "munge" /\ munges' = munges + 1

\* The writers of a hook that wrote a row in the step
Wrote(event) ==
    {i \in 1..Len(writers[event]) :
        Len(DataRows(writers'[event][i])) > Len(DataRows(writers[event][i]))}

\* The first writer of a hook, in registration order, whose condition admits
\* the Processor state p (no element if none admits it)
FirstAdmitting(event, p) ==
    {i \in 1..Len(writers[event]) :
        /\ Admits(writers[event][i].condition, p)
        /\ \A j \in 1..(i - 1) : ~Admits(writers[event][j].condition, p)}

\* The hooks dispatched by the call the step made
FiredEvents == {ret'.fired[k].event : k \in 1..Len(ret'.fired)}

FiredState(event) ==
    LET k == CHOOSE k \in 1..Len(ret'.fired) : ret'.fired[k].event = event
    IN  [document |-> ret'.fired[k].document, errors |-> ret'.fired[k].errors]

\* Every writer that wrote in the step wrote one row, the Processor's
\* document under the writer's header
WroteDocument(event) ==
    \A i \in Wrote(event) :
        DataRows(writers'[event][i]) =
            Append(DataRows(writers[event][i]),
                   DictToList(Header(writers'[event][i], lists'),
                              Output(writers'[event][i], FiredState(event))))

\* C3: in one firing at most one writer of the hook writes the document, and
\* it is the first in registration order whose condition admits it; writers
\* of hooks that were not fired write nothing.
C3_RouterExclusivity ==
    [][MungeStep =>
        \A event \in Hooks :
            IF event \in FiredEvents
            THEN /\ Cardinality(Wrote(event)) <= 1
                 /\ Wrote(event) \subseteq FirstAdmitting(event, FiredState(event))
                 /\ ret'.raised = None =>
                        Wrote(event) = FirstAdmitting(event, FiredState(event))
                 /\ WroteDocument(event)
            ELSE writers'[event] = writers[event]]_vars

\* A conditional writer registered before an unconditional one took an even
\* document, and the unconditional one was not written.
C3_Witness ==
    /\ ret.op = "munge"
    /\ Len(writers[END]) = 2
    /\ writers[END][1].condition = is_even
    /\ writers[END][2].condition = None
    /\ writers[END][1].wrote_line
    /\ ~writers[END][2].wrote_line

OnlyValidateBound == filterer = None /\ coercer = None /\ validator # None

\* C4: with only Validate bound, an accepted document fires END with the
\* validator's normalized document, which is what is returned and what an
\* END writer writes; a rejected document fires FAILED_VALIDATION and
\* leaves every END writer as it was.
C4_ValidateOnly ==
    [][(MungeStep /\ OnlyValidateBound) =>
        LET p == validated(validator, ret'.input) IN
        IF Rejected(p)
        THEN /\ ret'.fired = <<Fired(FAILED_VALIDATION, p)>>
             /\ ret'.raised = None => ret'.none
             /\ writers'[END] = writers[END]
        ELSE /\ ret'.fired = <<Fired(END, p)>>
             /\ ret'.raised = None => (~ret'.none /\ ret'.document = p.document)
             /\ \A i \in Wrote(END) :
                    DataRows(writers'[END][i]) =
                        Append(DataRows(writers[END][i]),
                               DictToList(Header(writers'[END][i], lists'), p.document))
    ]_vars

\* With only a normalizing validator bound, an END writer wrote the
\* normalized value of an accepted document.
C4_Witness ==
    /\ ret.op = "munge"
    /\ OnlyValidateBound
    /\ validator = uds_path_schema
    /\ ret.input = Row("2", "dog")
    /\ Len(writers[END]) >= 1
    /\ writers[END][1].out = << <<"Field", "OtherField">>, <<"2", "\\dog\\">> >>

----------------------------------------------------------------------------
(* Properties of Munger.munge_all *)

\* The step is an iteration of munge_all that read a row and munged it
RowStep == pc = "munge_all" /\ source_pos' = source_pos + 1

OnlyFilterBound == filterer # None /\ coercer = None /\ validator = None

\* One open unconditional writer on FAILED_FILTER and one on END
FilterWriters ==
    /\ \A event \in {FAILED_FILTER, END} :
          /\ Len(writers[event]) = 1
          /\ writers[event][1].condition = None
          /\ ~writers[event][1].closed

\* The field values of a row of the source, in the order of its columns
Values(doc) == [i \in 1..Len(doc) |-> doc[i][2]]

\* Writer 1 of the hook wrote one row, the values of the document; every
\* other writer is as it was
WroteOnlyTo(event, doc) ==
    /\ DataRows(writers'[event][1]) = Append(DataRows(writers[event][1]), Values(doc))
    /\ \A other \in Hooks \ {event} : writers'[other] = writers[other]

\* C5: with only Filter bound and one unconditional writer on FAILED_FILTER
\* and one on END, each row of the source the filter rejects is written once
\* to the FAILED_FILTER writer and to no other, each row it accepts once to
\* the END writer and to no other, with its field values unchanged.
C5_FilterPartition ==
    [][(RowStep /\ OnlyFilterBound /\ FilterWriters) =>
        LET doc == BASIC_CSV[source_pos + 1] IN
        IF Rejected(validated(filterer, doc))
        THEN WroteOnlyTo(FAILED_FILTER, doc)
        ELSE WroteOnlyTo(END, doc)]_vars

\* The whole source was partitioned: the odd row is in filtered.csv, the
\* even rows in output.csv.
C5_Witness ==
    /\ ret.op = "munge_all"
    /\ ret.raised = None
    /\ OnlyFilterBound
    /\ FilterWriters
    /\ writers[FAILED_FILTER][1].out = << <<"Field", "OtherField">>, <<"1", "a">> >>
    /\ writers[END][1].out = << <<"Field", "OtherField">>, <<"2", "dog">>, <<"4", "">> >>

NoStageBound == filterer = None /\ coercer = None /\ validator = None

\* C6: munge_all called with no stage bound raises RuntimeError; the call
\* reads no row, invokes no writer and does not enter the loop.
C6_NoStagesFailFast ==
    [][(pc = "idle" /\ NoStageBound /\ ret'.op \in {"munge_all", "munge_all:begin"}) =>
        /\ ret'.raised = "RuntimeError"
        /\ pc' = "idle"
        /\ UNCHANGED <<source_pos, writers, lists, files, doc_written>>]_vars

\* munge_all raised RuntimeError with the source set and a writer registered
C6_Witness ==
    /\ ret.op = "munge_all"
    /\ ret.raised = "RuntimeError"
    /\ NoStageBound
    /\ source_init
    /\ ~source_closed
    /\ NumWriters > 0
    /\ source_pos = 0

\* The document of the step was rejected by a stage
RejectedStep == Len(ret'.fired) >= 1 /\ ret'.fired[1].event \in FailureHooks

\* C7: a rejection never escapes munge_all and never ends it: unless a
\* writer or the source fails (ValueError), the loop goes on with the next
\* row after a rejected document, and munge_all returns normally when the
\* source is exhausted, having read every row.
C7_RejectionNeverAborts ==
    /\ [][(RowStep /\ RejectedStep) =>
            /\ ret'.raised \in {None, "ValueError"}
            /\ ret'.raised = None => pc' = "munge_all"]_vars
    /\ [][(pc = "munge_all" /\ pc' = "idle" /\ ret'.raised # "ValueError") =>
            /\ ret'.op = "munge_all"
            /\ ret'.raised = None
            /\ source_pos' = Len(BASIC_CSV)]_vars
    /\ [](ret.raised # MungeFailureException)

\* munge_all returned normally from a run in which the first row was
\* rejected by the filter and a later one by the validator.
C7_Witness ==
    /\ ret.op = "munge_all"
    /\ ret.raised = None
    /\ source_pos = Len(BASIC_CSV)
    /\ filterer = filter_schema
    /\ validator = BASIC_VALIDATION_SCHEMA
    /\ Len(writers[FAILED_FILTER]) = 1
    /\ Len(writers[FAILED_VALIDATION]) = 1
    /\ writers[FAILED_FILTER][1].wrote_line
    /\ writers[FAILED_VALIDATION][1].wrote_line

----------------------------------------------------------------------------
(* Properties of Munger.register_writer *)

\* C8: register_writer called before set_source_data raises RuntimeError,
\* whatever the hook, filename and suffix, and registers nothing.
C8_WriterNeedsSource ==
    (ret.op = "register_writer" /\ ~source_init) =>
        /\ ret.raised = "RuntimeError"
        /\ NumWriters = 0
        /\ files = {}

\* A writer named by a suffix was refused before the source was set
C8_Witness ==
    /\ ret.op = "register_writer"
    /\ ~source_init
    /\ Get(ret.input, "suffix") # None
    /\ Get(ret.input, "filename") = None
    /\ ret.raised = "RuntimeError"

\* C9: register_writer succeeds only when exactly one of filename and suffix
\* is given; with both or with neither it raises (TypeError, or
\* RuntimeError when the source is not set).
C9_FilenameXorSuffix ==
    ret.op = "register_writer" =>
        LET both == Get(ret.input, "filename") # None /\ Get(ret.input, "suffix") # None
            neither == Get(ret.input, "filename") = None /\ Get(ret.input, "suffix") = None
        IN  /\ ret.raised = None => (~both /\ ~neither)
            /\ (both \/ neither) =>
                   ret.raised = (IF source_init THEN "TypeError" ELSE "RuntimeError")

\* A call with both a filename and a suffix was refused with the source set
C9_Witness ==
    /\ ret.op = "register_writer"
    /\ source_init
    /\ Get(ret.input, "filename") # None
    /\ Get(ret.input, "suffix") # None
    /\ ret.raised = "TypeError"

----------------------------------------------------------------------------
(* Properties of the teardown *)

\* C10: after the teardown of a Munger whose source was run to its end, no
\* Writer that wrote no line has its file on disk.
C10_EmptyWriterCleanup ==
    (ret.op \in {"__exit__", "__del__"} /\ source_pos = Len(BASIC_CSV)) =>
        \A event \in Hooks : \A i \in 1..Len(writers[event]) :
            ~writers[event][i].wrote_line => writers[event][i].name \notin files

----------------------------------------------------------------------------
(* Properties of Writer.write *)

\* C11: once a Writer has fixed its header, the header was emitted once, as
\* the first line of its file, and every row written after it has the
\* columns of that header.
C11_HeaderStability ==
    \A event \in Hooks : \A i \in 1..Len(writers[event]) :
        writers[event][i].fields_initialized =>
            /\ Len(writers[event][i].out) >= 1
            /\ \A k \in 2..Len(writers[event][i].out) :
                   Len(writers[event][i].out[k]) = Len(writers[event][i].out[1])

\* The header the claims give a Writer whose first write is handed a
\* document with these keys: the list given at registration, or the keys,
\* and then the error column if the Writer includes errors
HeaderOf(w, keys) ==
    (IF w.fieldnames # None THEN InitLists[w.fieldnames] ELSE keys)
        \o (IF w.include_errors THEN <<"ValidationErrors">> ELSE <<>>)

\* The step fixes the header of writer i of the event
FixesHeader(event, i) ==
    /\ i <= Len(writers[event])
    /\ ~writers[event][i].fields_initialized
    /\ writers'[event][i].fields_initialized

\* C12: the header a Writer fixes on its first write is the fieldname list
\* given at registration, in its order, or else the keys of the document of
\* that write in their order, followed by exactly one error column if the
\* Writer includes errors.
C12_HeaderContents ==
    [][\A event \in Hooks : \A i \in 1..MaxWriters + 1 :
          FixesHeader(event, i) =>
              writers'[event][i].out[1] =
                  HeaderOf(writers[event][i], Keys(ret'.fired[1].document))]_vars

\* The step appended a row to the file of writer i of the event
WroteRow(event, i) ==
    /\ i <= Len(writers[event])
    /\ Len(writers'[event][i].out) > Len(writers[event][i].out)
    /\ writers'[event][i].wrote_line
    /\ Len(writers'[event][i].out) >= 2

\* The last line of a Writer's file
LastRow(w) == w.out[Len(w.out)]

\* The row holds every field of the document under the field's column
HoldsFields(header, row, doc) ==
    /\ KeySet(doc) \subseteq Range(header)
    /\ Len(row) = Len(header)
    /\ \A k \in 1..Len(header) :
           HasKey(doc, header[k]) => row[k] = Get(doc, header[k])

\* The description of a maxlength error names the over-long field
NamesOffendingField(description, doc) ==
    \E k \in 1..Len(doc) :
        /\ Len(doc[k][2]) > 1
        /\ description = "{'" \o doc[k][1] \o "': ['max length is 1']}"

\* C13: when the validator rejects a document and a FAILED_VALIDATION writer
\* that includes errors writes it, the row holds the document's fields and
\* its last column, under the header's last name ValidationErrors, is the
\* non-empty error description of the validator, naming the offending field.
C13_ErrorAnnotation ==
    [][\A i \in 1..MaxWriters + 1 :
          (RowStep /\ WroteRow(FAILED_VALIDATION, i)
                   /\ writers[FAILED_VALIDATION][i].include_errors) =>
              /\ ret'.fired[1].event = FAILED_VALIDATION
              /\ Header(writers'[FAILED_VALIDATION][i], lists')
                     [Len(Header(writers'[FAILED_VALIDATION][i], lists'))]
                   = "ValidationErrors"
              /\ HoldsFields(Header(writers'[FAILED_VALIDATION][i], lists'),
                             LastRow(writers'[FAILED_VALIDATION][i]),
                             ret'.fired[1].document)
              /\ LastRow(writers'[FAILED_VALIDATION][i])
                     [Len(LastRow(writers'[FAILED_VALIDATION][i]))]
                   = ret'.fired[1].errors
              /\ ret'.fired[1].errors \notin {"", NoErrors}
              /\ NamesOffendingField(ret'.fired[1].errors,
                                     ret'.fired[1].document)]_vars

\* A FAILED_VALIDATION writer that includes errors wrote the rejected row
\* (2, dog) with the validator's error description in its last column.
C13_Witness ==
    /\ Len(ret.fired) = 1
    /\ ret.fired[1].event = FAILED_VALIDATION
    /\ Len(writers[FAILED_VALIDATION]) >= 1
    /\ writers[FAILED_VALIDATION][1].include_errors
    /\ writers[FAILED_VALIDATION][1].fieldnames = None
    /\ writers[FAILED_VALIDATION][1].out =
           << <<"Field", "OtherField", "ValidationErrors">>,
              <<"2", "dog", "{'OtherField': ['max length is 1']}">> >>

\* The END writer the writer specification registers with include_errors
\* given as True
GivenIncludeErrors(w) == w.name = "bear.csv"

\* C14: a writer registered on END with include_errors given as True does
\* not include errors: neither its header nor any line of its file has the
\* error column.
C14_EndIgnoresIncludeErrors ==
    \A i \in 1..Len(writers[END]) :
        GivenIncludeErrors(writers[END][i]) =>
            /\ ~writers[END][i].include_errors
            /\ "ValidationErrors" \notin Range(Header(writers[END][i], lists))
            /\ \A k \in 1..Len(writers[END][i].out) :
                   "ValidationErrors" \notin Range(writers[END][i].out[k])

----------------------------------------------------------------------------
(* Properties of the configuration calls *)

\* The Writer the last register_writer call appended
Registered == writers[Get(ret.input, "event")][Len(writers[Get(ret.input, "event")])]

\* C15: a writer registered with the suffix uncoerced on the source
\* ../indexes/fish.csv has the destination ../indexes/fish-uncoerced.csv:
\* the source's directory, its stem, '-', the suffix, its extension; and
\* that file is the one created.
C15_SuffixDestination ==
    (/\ ret.op = "register_writer"
     /\ ret.raised = None
     /\ Get(ret.input, "filename") = None
     /\ Get(ret.input, "suffix") = "uncoerced") =>
        /\ source_filename = indexes_fish_csv
        /\ Registered.name = "../indexes/fish-uncoerced.csv"
        /\ "../indexes/fish-uncoerced.csv" \in files

\* A writer was registered by the suffix uncoerced
C15_Witness ==
    /\ ret.op = "register_writer"
    /\ ret.raised = None
    /\ Get(ret.input, "filename") = None
    /\ Get(ret.input, "suffix") = "uncoerced"
    /\ Len(writers[FAILED_COERCION]) >= 1
    /\ writers[FAILED_COERCION][1].name = "../indexes/fish-uncoerced.csv"

----------------------------------------------------------------------------
(* Properties of the Processor's field mapping *)

\* The targets a rule names, by either directive
Targets(rule) ==
    IF rule.rename.kind # "none" THEN rule.rename.names ELSE rule.map_to.names

\* The field of the document is renamed away: a rule names targets for it
\* and the field's own name is not among them
RenamedAway(rules, field) ==
    \E i \in 1..Len(rules) :
        rules[i].field = field /\ field \notin Range(Targets(rules[i]))

\* The new keys of one rule, in the order listed, each with the value
NewKeys(rule, doc) ==
    IF ~HasKey(doc, rule.field)
    THEN <<>>
    ELSE [k \in 1..Len(SelectSeq(Targets(rule), LAMBDA n : n # rule.field)) |->
             <<SelectSeq(Targets(rule), LAMBDA n : n # rule.field)[k],
               Get(doc, rule.field)>>]

RECURSIVE Appended(_, _, _)
Appended(rules, i, doc) ==
    IF i > Len(rules)
    THEN <<>>
    ELSE NewKeys(rules[i], doc) \o Appended(rules, i + 1, doc)

\* The normalized document as the claim describes it: the fields not
\* renamed away in their order, then the new keys in the order the rules
\* were declared
RenameOrdered(rules, doc) ==
    SelectSeq(doc, LAMBDA e : ~RenamedAway(rules, e[1])) \o Appended(rules, 1, doc)

\* C16: the document a Coerce-bound Processor returns has the fields that
\* were not renamed away first, in their order, then the keys of the rename
\* rules in the order the rules were declared; a sequence of targets that
\* names the field itself keeps the field in its place.
C16_RenameOrdering ==
    (/\ ret.op = "munge_all:row"
     /\ filterer = None /\ validator = None /\ coercer # None
     /\ ret.raised = None /\ ~ret.none) =>
        ret.document = RenameOrdered(Rules(coercer), ret.input)

----------------------------------------------------------------------------
(* Properties of set_schema and set_processor *)

\* The step is a set_schema or set_processor call
BindStep == ret' # ret /\ ret'.op \in {"set_schema", "set_processor"}

\* C17: set_schema and set_processor with a stage identifier that is not a
\* SchemaType raise TypeError and leave the three stage bindings as they
\* were; with a SchemaType they raise nothing.
C17_UnknownStageType ==
    [][BindStep =>
          IF Get(ret'.input, "schema_type") \in {FILTER, COERCE, VALIDATE}
          THEN ret'.raised = None
          ELSE /\ ret'.raised = "TypeError"
               /\ UNCHANGED <<filterer, coercer, validator>>]_vars

\* set_processor was refused for the string "validation" with a filterer
\* already bound
C17_Witness ==
    /\ ret.op = "set_processor"
    /\ Get(ret.input, "schema_type") = "validation"
    /\ ret.raised = "TypeError"
    /\ filterer = filter_schema
    /\ validator = None

----------------------------------------------------------------------------
(* Properties of the teardown, continued *)

\* The step is a teardown of the Munger, or the finalizer of a Writer
TeardownStep == ret'.op \in {"__exit__", "__del__"}

AllClosed(ws) == \A h \in Hooks : \A i \in 1..Len(ws[h]) : ws[h][i].closed

\* C18: a teardown of the Munger raises nothing and leaves the source, if
\* one was opened, and every registered writer's file closed; a teardown
\* that follows a teardown changes nothing; and a file once closed is never
\* open again.
C18_TeardownIdempotent ==
    /\ [][TeardownStep =>
            /\ ret'.raised = None
            /\ AllClosed(writers')
            /\ source_init => source_closed'
            /\ ret.op \in {"__exit__", "__del__"} =>
                   UNCHANGED <<writers, source_closed, files, lists>>]_vars
    /\ [][\A h \in Hooks : \A i \in 1..Len(writers[h]) :
            writers[h][i].closed => writers'[h][i].closed]_vars

\* The Munger was finalized with the source open and two writers
\* registered, one of which had written
C18_Witness ==
    /\ ret.op = "__del__"
    /\ pc = "deleted"
    /\ source_init /\ source_closed
    /\ NumWriters = 2
    /\ AllClosed(writers)
    /\ \E h \in Hooks : \E i \in 1..Len(writers[h]) : writers[h][i].wrote_line

\* C19: when a register_writer call fails, no file handle opened by an
\* earlier registration is left open.
C19_RegistrationExceptionSafe ==
    (ret.op = "register_writer" /\ ret.raised # None) => AllClosed(writers)

\* C20: a set_schema or set_processor call made after the first munge call
\* is refused and leaves the three stage bindings as they were.
C20_NoRebindingAfterStart ==
    [][(BindStep /\ munges > 0) =>
          /\ ret'.raised # None
          /\ UNCHANGED <<filterer, coercer, validator>>]_vars

----------------------------------------------------------------------------
(* Properties of Munger.munge, continued *)

\* C21: munge called with no stage bound raises nothing, dispatches END
\* once for the document and returns the document unchanged.
C21_NoStageCompletes ==
    (ret.op = "munge" /\ NoStageBound) =>
        /\ ret.raised = None
        /\ ~ret.none
        /\ ret.document = ret.input
        /\ Len(ret.fired) = 1
        /\ ret.fired[1].event = END

----------------------------------------------------------------------------
(* Properties of Processor construction *)

\* A step in which set_schema builds a Processor from the schema object
Constructs(schema) == \E schema_type \in Range(SchemaType) : SetSchema(schema_type, schema)

\* Every map_to value in the rules is a name or a sequence of names
NamesOnly(rules) ==
    \A i \in 1..Len(rules) : rules[i].map_to.kind \in {"none", "handler", "str", "seq"}

\* C22: building a Processor fails with a configuration error exactly when
\* some map_to value of the schema is neither a name nor a sequence of
\* names.
C22_MapToChecked ==
    [][\A s \in SchemaIds :
          Constructs(s) => (ret'.raised = "ValueError" <=> ~NamesOnly(schemas[s]))]_vars

\* The targets the Processor recorded for a rule's field
MapToTargets(rule) ==
    IF rule.map_to.kind \in {"str", "seq", "numbers"} THEN field_mappings(rule) ELSE <<>>

\* Every target of the rule holds in the document the value the field had
\* in data, and the field is gone unless it is a target itself
Mapped(rule, data, document) ==
    /\ \A j \in 1..Len(MapToTargets(rule)) :
          /\ HasKey(document, MapToTargets(rule)[j])
          /\ Get(document, MapToTargets(rule)[j]) = Get(data, rule.field)
    /\ MapToTargets(rule) # <<>> /\ rule.field \notin Range(MapToTargets(rule))
          => ~HasKey(document, rule.field)

----------------------------------------------------------------------------
(* Properties of Munger.munge, continued *)

\* The last bound stage in the order Filter, Coerce, Validate
LastBound == BoundStages[Len(BoundStages)]

\* The state of the last bound stage's Processor after it was given the
\* document the stages before it returned
LastAnswer(data) == Answer(LastBound, After(Len(BoundStages) - 1, data))

\* C24: the Processor state handed to the END hook is the state of the
\* Processor of the last bound stage, the final stage that ran.
C24_LastStageProcessor ==
    (ret.op = "munge" /\ ret.raised = None /\ ~ret.none /\ BoundStages # <<>>) =>
        /\ ret.stages[Len(ret.stages)] = LastBound
        /\ ret.fired[Len(ret.fired)] = Fired(END, LastAnswer(ret.input))

\* With the filterer and the coercer bound and no validator, END was handed
\* the coercer's document, which is not the document the filterer held
C24_Witness ==
    /\ ret.op = "munge"
    /\ ret.raised = None
    /\ ~ret.none
    /\ filterer = filter_schema
    /\ coercer = uds_path_schema
    /\ validator = None
    /\ ret.fired[1].event = END
    /\ ret.fired[1].document = normalized(coercer, ret.input).document
    /\ ret.fired[1].document # validated(filterer, ret.input).document

\* C25: once a writer has written the document, the writers registered
\* after it for the hook are not invoked: nothing of them changes, and the
\* document does not fix their headers.
C25_LaterWritersUntouched ==
    [][MungeStep =>
        \A event \in Hooks : \A i \in Wrote(event) :
            \A j \in (i + 1)..Len(writers[event]) :
                writers'[event][j] = writers[event][j]]_vars

\* An even document was written by the conditional writer; the writer
\* registered after it still has no header and an empty file
C25_Witness ==
    /\ ret.op = "munge"
    /\ ret.raised = None
    /\ Len(writers[END]) = 2
    /\ writers[END][1].condition = is_even
    /\ Len(DataRows(writers[END][1])) = 1
    /\ ~writers[END][2].fields_initialized
    /\ writers[END][2].out = <<>>

----------------------------------------------------------------------------
(* Properties of Munger.munge_all, continued *)

\* The value a row holds in the column the header names
Column(header, row, name) == row[CHOOSE k \in 1..Len(header) : header[k] = name]

\* The writer's file after the step is its file before it with one row
\* more at the end, a row of the document
AppendedRowOf(before, after, header, doc) ==
    /\ Len(DataRows(after)) = Len(DataRows(before)) + 1
    /\ SubSeq(DataRows(after), 1, Len(DataRows(before))) = DataRows(before)
    /\ Column(header, DataRows(after)[Len(DataRows(after))], "Field") = Get(doc, "Field")

\* C26: munge_all hands the rows of the source to munge one at a time in
\* source order, and a Writer's file only grows at its end, by a row of the
\* document in hand: the rows of a Writer are in the order of the source.
C26_SourceOrder ==
    [][RowStep =>
        /\ ret'.input = BASIC_CSV[source_pos']
        /\ Len(ret'.fired) <= 1
        /\ \A event \in Hooks : \A i \in 1..Len(writers[event]) :
              \/ DataRows(writers'[event][i]) = DataRows(writers[event][i])
              \/ AppendedRowOf(writers[event][i], writers'[event][i],
                               Header(writers'[event][i], lists'), ret'.input)]_vars

\* The validator rejected the second row of the source; the END writer
\* holds the first row and the third, in that order
C26_Witness ==
    /\ validator = BASIC_VALIDATION_SCHEMA
    /\ source_pos = Len(BASIC_CSV)
    /\ Len(writers[END]) >= 1
    /\ DataRows(writers[END][1]) = <<Values(BASIC_CSV[1]), Values(BASIC_CSV[3])>>

----------------------------------------------------------------------------
(* Properties of register_writer, continued *)

\* C27: a register_writer call refused with RuntimeError or TypeError
\* appends no Writer to any hook, creates no file and changes nothing else
\* of the Munger.
C27_RefusedRegistration ==
    [][(ret'.op = "register_writer" /\ ret'.raised # None) =>
          /\ ret'.raised \in {"RuntimeError", "TypeError"}
          /\ UNCHANGED <<writers, files, lists, filterer, coercer, validator,
                         source_init, source_filename, source_pos, source_closed,
                         doc_written>>]_vars

\* A call naming both a filename and a suffix was refused after one writer
\* had been registered: one writer and its file, and no file bird.csv
C27_Witness ==
    /\ ret.op = "register_writer"
    /\ ret.raised = "TypeError"
    /\ Get(ret.input, "filename") = "bird.csv"
    /\ Get(ret.input, "suffix") = "bird"
    /\ NumWriters = 1
    /\ Cardinality(files) = 1
    /\ "bird.csv" \notin files

----------------------------------------------------------------------------
(* Properties of Writer.cleanup *)

\* C28: the wrote_line flag of a Writer is never cleared, and the file of a
\* Writer that has written a line is never removed.
C28_WrittenFileKept ==
    [][\A h \in Hooks : \A i \in 1..Len(writers[h]) :
          /\ writers[h][i].wrote_line => writers'[h][i].wrote_line
          /\ (writers[h][i].wrote_line /\ writers[h][i].name \in files)
                => writers[h][i].name \in files']_vars

----------------------------------------------------------------------------
(* Properties of the Writer's header, continued *)

\* How many columns of the header have the name
Count(header, name) == Cardinality({k \in 1..Len(header) : header[k] = name})

\* C29: fixing a header leaves the fieldname list the caller gave as it
\* was, and the header of a Writer that includes the errors has the error
\* column once.
C29_CallerListUntouched ==
    /\ lists = InitLists
    /\ \A h \in Hooks : \A i \in 1..Len(writers[h]) :
          (writers[h][i].fields_initialized /\ writers[h][i].include_errors)
              => Count(Header(writers[h][i], lists), "ValidationErrors") = 1

----------------------------------------------------------------------------
(* Properties of Processor construction, continued *)

\* C30: building a Processor leaves the caller's schema object as it was
\* written, and a Processor built from a schema object normalizes as the
\* first Processor built from it does.
C30_SchemaUnmodified ==
    /\ \A s \in SchemaIds : schemas[s] = Rules(s)
    /\ (ret.op = "munge" /\ ret.raised = None /\ ~ret.none /\ coercer # None)
          => ret.document = normalized(Base(coercer), ret.input).document

====
